---- MODULE Spec2Model ----
(***************************************************************************)
(* Remote debug session bridge of vscode_abap_remote_fs:                   *)
(*   - ExternalBreakpointManager: startListener / stopListener and the     *)
(*     long-poll attach listener loop (runListenerLoop);                   *)
(*   - ExternalBreakpointManager: syncBreakpoints / syncAllBreakpoints;    *)
(*   - VariableManager: the per-thread handle tables, fetchTableSlice and  *)
(*     the batch runner pMap, evaluate and setVariable;                    *)
(*   - VariableManager: dumpJson and getScopes.                            *)
(* Source: src/client/src/adt/debugger/variableManager.ts                  *)
(***************************************************************************)
EXTENDS Integers, Sequences, FiniteSets, TLC

(* ------------------------------ bounds --------------------------------- *)
\* number of startListener invocations explored
MaxCalls == 2
\* handles allocated per handle table instance
MaxAlloc == 3

Calls == 1..MaxCalls
\* connection ids (root.uri.authority)
Conns == {1, 2}
\* debugger thread ids
Threads == {1, 2}
\* remote variable ids
Ids == {"LT_TAB", "SY"}

NoConn == 0
NoListener == 0

VARIABLES
    listeners,   \* ExternalBreakpointManager.listeners: connId -> listener identity
    active,      \* ExternalBreakpointManager.active
    pc,          \* position of every startListener call / its listener loop
    conn,        \* connId picked by every startListener call
    last,        \* what the last step did: the loop whose debuggerListen
                 \* failed or that called debuggerListen, the kind of the
                 \* failure, whether debuggerListen was called and whether
                 \* that was after the 1 s delay, and the message the step
                 \* showed to the user (window.show...Message)
    handedOff,   \* the running loop has called debug.startDebugging
    staleWait,   \* stopListener cleared the registry while the poll was in flight
    quiet,       \* stopListener ran; since then startListener was neither
                 \* invoked nor given its connection
    handles,     \* VariableManager.handles: threadId -> Handles<Variable>
    retired,     \* handles issued by tables that resetHandle has replaced
    lookup,      \* the last getVariables call up to its first await: the
                 \* handle, what the lookup gave, and whether the call
                 \* returned [] or went on to childVariables
    declared,    \* debug.breakpoints: source file -> declared lines (0-based)
    sync,        \* the running syncBreakpoints / syncAllBreakpoints calls
    syncEnd,     \* the sync call that ended in the last step, and how
    remote,      \* the remote session's breakpoint lines (1-based) by file
    syncLog,     \* whether a setBreakpoints call was rejected so far,
                 \* whether the breakpoints changed while a sync call ran,
                 \* and how often they changed
    inp,         \* arguments of the fetchTableSlice call and the remote's table
    op,          \* the evaluate or setVariable call under way or last ended
    dj,          \* the dumpJson call: the remote's value tree, the remote
                 \* calls that resolved, and the result
    gs,          \* getScopes: VariableManager.currentStackId, the calls
                 \* under way, the call that ended in the last step, and
                 \* per thread the remote's cursor and the requests it has
                 \* still to serve
    ft           \* the fetchTableSlice call: position, pMap state, result,
                 \* and whether a chunk request completed before one that
                 \* was started earlier

lvars == <<listeners, active, pc, conn, last, handedOff, staleWait, quiet>>
hvars == <<handles, retired, lookup>>
bvars == <<declared, sync, syncEnd, remote, syncLog>>
tvars == <<inp, ft>>
ovars == <<op>>
dvars == <<dj>>
svars == <<gs>>
vars == <<listeners, active, pc, conn, last, handedOff, staleWait, quiet,
          handles, retired, lookup, declared, sync, syncEnd, remote, syncLog,
          inp, ft, op, dj, gs>>
\* what the attach listener leaves alone, what the handle tables do, what
\* the breakpoint sync does besides the listener's state, and what
\* fetchTableSlice does
nonListener == <<hvars, bvars, tvars, ovars, dvars, svars>>
nonHandles == <<lvars, bvars, tvars, ovars, dvars, svars>>
nonSync == <<hvars, tvars, ovars, dvars, svars>>
nonSlice == <<lvars, hvars, bvars, ovars, dvars, svars>>
\* what evaluate and setVariable leave alone besides the handle tables
nonOps == <<lvars, bvars, tvars, dvars, svars>>
\* what dumpJson leaves alone
nonDump == <<lvars, hvars, bvars, tvars, ovars, svars>>
\* what getScopes leaves alone besides the handle tables
nonScopes == <<lvars, bvars, tvars, ovars, dvars>>

(* ------------------------ attach listener ------------------------------ *)

\* results of client.statelessClone.debuggerListen that are returned:
\* a debuggee, nothing (the long poll ended with an empty body), or a
\* DebugListenerError value
Returned == {"debuggee", "noBody", "listenerError"}
\* results of debuggerListen that are raised: an ADT error that is the
\* listener timeout, another ADT error, or a transport error
Thrown == {"adtTimeout", "adtError", "otherError"}

\* the kind of failure a debuggerListen result is: the listener timeout (no
\* debuggee arrived within the long poll), another failure, or none
FailureKind(r) ==
    CASE r \in {"noBody", "adtTimeout"} -> "timeout"
      [] r \in {"listenerError", "adtError", "otherError"} -> "error"
      [] OTHER -> "none"

\* this.listeners.has(connId)
ListenersHas(L, c) == L[c] # NoListener

\* (variant: the duplicate check is missing)
AlreadyRunningIgnored(c) == FALSE
\* the duplicate check of startListener
AlreadyRunning(c) == ListenersHas(listeners, c)

\* debuggee && !isDebugListenerError(debuggee)
GotDebuggee(r) == r = "debuggee"

\* a step in which no loop acted and no message was shown
NoEvent ==
    [k |-> 0, failure |-> "none", polled |-> FALSE, delayed |-> FALSE,
     msg |-> "none"]

\* a step of startListener or stopListener that shows message m
Shows(m) == [NoEvent EXCEPT !.msg = m]

InitListener ==
    /\ listeners = [c \in Conns |-> NoListener]
    /\ active = FALSE
    /\ pc = [k \in Calls |-> "idle"]
    /\ conn = [k \in Calls |-> NoConn]
    /\ last = NoEvent
    /\ handedOff = [k \in Calls |-> FALSE]
    /\ staleWait = [k \in Calls |-> FALSE]
    /\ quiet = FALSE

\* loop k returns from runListenerLoop; what was recorded about it is dropped
LoopExit(k, m) ==
    /\ pc' = [pc EXCEPT ![k] = "exited"]
    /\ last' = Shows(m)
    /\ handedOff' = [handedOff EXCEPT ![k] = FALSE]
    /\ staleWait' = [staleWait EXCEPT ![k] = FALSE]

\* `while (this.listeners.has(connId))` followed by the debuggerListen call:
\* loop k either issues the next long poll or leaves.  r is the result that
\* brought the loop here in this step ("none": no debuggerListen settled in
\* it), afterDelay tells whether it came through the delay, m is the message
\* the step shows.
LoopHead(k, r, afterDelay, m) ==
    IF ListenersHas(listeners, conn[k])
    THEN /\ pc' = [pc EXCEPT ![k] = "poll"]
         /\ last' = [k |-> k, failure |-> FailureKind(r), polled |-> TRUE,
                     delayed |-> afterDelay, msg |-> m]
         /\ UNCHANGED <<handedOff, staleWait>>
    ELSE LoopExit(k, m)

\* startListener is invoked (command abapfs.debug.startExternalListener) and
\* suspends in `await pickAdtRoot()`.  Calls are numbered in invocation order.
StartListenerCall(k) ==
    /\ pc[k] = "idle"
    /\ \A j \in Calls : j < k => pc[j] # "idle"
    /\ pc' = [pc EXCEPT ![k] = "pick"]
    /\ quiet' = FALSE
    /\ last' = NoEvent
    /\ UNCHANGED <<listeners, active, conn, handedOff, staleWait>>
    /\ UNCHANGED nonListener

\* pickAdtRoot() resolves without a root: `if (!root) return`.
StartListenerNoRoot(k) ==
    /\ pc[k] = "pick"
    /\ pc' = [pc EXCEPT ![k] = "cancelled"]
    /\ last' = NoEvent
    /\ UNCHANGED <<listeners, active, conn, handedOff, staleWait, quiet>>
    /\ UNCHANGED nonListener

\* pickAdtRoot() resolves with connection c; the duplicate check, getClient and
\* the call of DebugListener.create run without suspension.
StartListenerPicked(k, c, connected) ==
    /\ pc[k] = "pick"
    /\ conn' = [conn EXCEPT ![k] = c]
    /\ IF AlreadyRunning(c)
       THEN /\ last' = Shows("alreadyRunning")
            /\ pc' = [pc EXCEPT ![k] = "refused"]
       ELSE IF ~connected
       THEN /\ last' = Shows("failedToStart")
            /\ pc' = [pc EXCEPT ![k] = "failed"]
       ELSE /\ last' = NoEvent
            /\ pc' = [pc EXCEPT ![k] = "create"]
    /\ quiet' = FALSE
    /\ UNCHANGED <<listeners, active, handedOff, staleWait>>
    /\ UNCHANGED nonListener

\* `await DebugListener.create(...)` resolves: the listener is registered and
\* the initial syncBreakpoints is awaited; or it rejects and the catch reports.
StartListenerCreated(k, ok) ==
    /\ pc[k] = "create"
    /\ IF ok
       THEN /\ listeners' = [listeners EXCEPT ![conn[k]] = k]
            /\ active' = TRUE
            /\ pc' = [pc EXCEPT ![k] = "sync"]
            /\ last' = NoEvent
       ELSE /\ last' = Shows("failedToStart")
            /\ pc' = [pc EXCEPT ![k] = "failed"]
            /\ UNCHANGED <<listeners, active>>
    /\ UNCHANGED <<conn, handedOff, staleWait, quiet>>
    /\ UNCHANGED nonListener

\* `await this.syncBreakpoints(listener, connId)` resolves: runListenerLoop is
\* called and runs up to its first await, then the start is announced; or it
\* rejects and the catch reports.
StartListenerSynced(k, ok) ==
    /\ pc[k] = "sync"
    /\ IF ok
       THEN LoopHead(k, "none", FALSE, "started")
       ELSE /\ last' = Shows("failedToStart")
            /\ pc' = [pc EXCEPT ![k] = "failed"]
            /\ UNCHANGED <<handedOff, staleWait>>
    /\ UNCHANGED <<listeners, active, conn, quiet>>
    /\ UNCHANGED nonListener

\* stopListener (command abapfs.debug.stopExternalListener).
StopListener ==
    /\ active' = FALSE
    /\ listeners' = [c \in Conns |-> NoListener]
    /\ last' = Shows("stopped")
    /\ staleWait' = [k \in Calls |->
          staleWait[k] \/ (pc[k] = "poll" /\ ListenersHas(listeners, conn[k]))]
    /\ quiet' = TRUE
    /\ UNCHANGED <<pc, conn, handedOff>>
    /\ UNCHANGED nonListener

\* (variant: a raised failure ends the loop)
CatchBlockReturns(k, e) ==
    LoopExit(k, "none")
\* the catch block of runListenerLoop: both branches of `if (isAdtError(e))`
\* are empty and fall through to the 1000 ms delay
CatchBlock(k, e) ==
    /\ pc' = [pc EXCEPT ![k] = "backoff"]
    /\ last' = [NoEvent EXCEPT !.k = k, !.failure = FailureKind(e)]
    /\ UNCHANGED <<handedOff, staleWait>>

\* the awaited debuggerListen of loop k returns r
ListenReturned(k, r) ==
    /\ pc[k] = "poll"
    /\ r \in Returned
    /\ IF ~ListenersHas(listeners, conn[k])
       THEN \* Stopped while waiting
            /\ LoopExit(k, "none")
            /\ UNCHANGED listeners
       ELSE IF GotDebuggee(r)
       THEN \* this.listeners.delete(connId); await debug.startDebugging(...)
            /\ listeners' = [listeners EXCEPT ![conn[k]] = NoListener]
            /\ handedOff' = [handedOff EXCEPT ![k] = TRUE]
            /\ pc' = [pc EXCEPT ![k] = "handoff"]
            /\ last' = NoEvent
            /\ UNCHANGED staleWait
       ELSE /\ LoopHead(k, r, FALSE, "none")
            /\ UNCHANGED listeners
    /\ UNCHANGED <<active, conn, quiet>>
    /\ UNCHANGED nonListener

\* the awaited debuggerListen of loop k rejects with e
ListenThrew(k, e) ==
    /\ pc[k] = "poll"
    /\ e \in Thrown
    /\ CatchBlock(k, e)
    /\ UNCHANGED <<listeners, active, conn, quiet>>
    /\ UNCHANGED nonListener

\* the 1000 ms timer of the catch block fires and the while condition is tested
DelayElapsed(k) ==
    /\ pc[k] = "backoff"
    /\ LoopHead(k, "none", TRUE, "none")
    /\ UNCHANGED <<listeners, active, conn, quiet>>
    /\ UNCHANGED nonListener

\* `await debug.startDebugging(undefined, config)` resolves (return) or
\* rejects (caught by the loop's catch block)
StartDebuggingSettled(k, ok) ==
    /\ pc[k] = "handoff"
    /\ IF ok
       THEN LoopExit(k, "none")
       ELSE CatchBlock(k, "startDebugging")
    /\ UNCHANGED <<listeners, active, conn, quiet>>
    /\ UNCHANGED nonListener

NextListener ==
    \/ \E k \in Calls : StartListenerCall(k)
    \/ \E k \in Calls : StartListenerNoRoot(k)
    \/ \E k \in Calls, c \in Conns, connected \in BOOLEAN :
          StartListenerPicked(k, c, connected)
    \/ \E k \in Calls, ok \in BOOLEAN : StartListenerCreated(k, ok)
    \/ \E k \in Calls, ok \in BOOLEAN : StartListenerSynced(k, ok)
    \/ StopListener
    \/ \E k \in Calls, r \in Returned : ListenReturned(k, r)
    \/ \E k \in Calls, e \in Thrown : ListenThrew(k, e)
    \/ \E k \in Calls : DelayElapsed(k)
    \/ \E k \in Calls, ok \in BOOLEAN : StartDebuggingSettled(k, ok)

(* --------------------------- handle tables ----------------------------- *)

\* per-thread multiplier of handles and frame ids; the sequence space of a
\* table is 0 .. STACK_THREAD_MULTIPLIER - 1 (a small value stands for it)
STACK_THREAD_MULTIPLIER == 3

\* idThread(id): the thread a handle or frame id belongs to
idThread(h) == h \div STACK_THREAD_MULTIPLIER

NotFound == [id |-> "undefined", threadId |-> 0]
NoTable == [made |-> FALSE, next |-> 0, map |-> <<>>]

\* new Handles<Variable>(startHandle)
NewHandles(startHandle) == [made |-> TRUE, next |-> startHandle, map |-> <<>>]

\* (variant: the thread id is added to, not multiplied by, the multiplier)
StartHandleAdded(t) == STACK_THREAD_MULTIPLIER + t
\* the first handle of a fresh table of thread t
StartHandle(t) == STACK_THREAD_MULTIPLIER * t

\* Handles.create(value): [table after, handle]
HandlesCreate(tab, d) ==
    [tab |-> [tab EXCEPT !.next = @ + 1, !.map = @ @@ (tab.next :> d)],
     handle |-> tab.next]

\* Handles.get(handle)
HandlesGet(tab, h) == IF h \in DOMAIN tab.map THEN tab.map[h] ELSE NotFound

\* variableHandles(threadId): the thread's table, created at first use
variableHandles(H, t) == IF H[t].made THEN H[t] ELSE NewHandles(StartHandle(t))

\* handles a lookup may be asked for
HandleSpace ==
    {h \in 0..(STACK_THREAD_MULTIPLIER * 3 + MaxAlloc) : idThread(h) \in Threads}

Live(t) == DOMAIN handles[t].map

InitHandles ==
    /\ handles = [t \in Threads |-> NoTable]
    /\ retired = [t \in Threads |-> {}]
    /\ lookup = [h |-> 0, stale |-> FALSE, res |-> NotFound,
                 returned |-> "none"]

\* resetHandle(threadId)
ResetHandle(t) ==
    /\ handles' = [handles EXCEPT ![t] = NewHandles(StartHandle(t))]
    /\ retired' = [retired EXCEPT ![t] = @ \cup Live(t)]
    /\ UNCHANGED lookup
    /\ UNCHANGED nonHandles

\* createVariable(threadId, v)
CreateVariable(t, v) ==
    /\ Cardinality(Live(t)) < MaxAlloc
    /\ handles' = [handles EXCEPT ![t] =
          HandlesCreate(variableHandles(handles, t), [id |-> v, threadId |-> t]).tab]
    /\ UNCHANGED <<retired, lookup>>
    /\ UNCHANGED nonHandles

\* (variant: the lookup result is not tested)
VariFoundAlways(vari) == TRUE
\* `if (vari)` of getVariables
VariFound(vari) == vari # NotFound

\* getVariables(parentid) up to its first await: the handle lookup, then
\* `return []` if nothing was found and else the call of childVariables(vari),
\* the only place where getVariables reaches the remote
GetVariablesLookup(parentid) ==
    /\ idThread(parentid) \in Threads
    /\ handles' = [handles EXCEPT ![idThread(parentid)] =
          variableHandles(handles, idThread(parentid))]
    /\ LET vari == HandlesGet(variableHandles(handles, idThread(parentid)), parentid)
       IN lookup' = [h |-> parentid,
                     stale |-> parentid \in retired[idThread(parentid)],
                     res |-> vari,
                     returned |-> IF VariFound(vari) THEN "childVariables" ELSE "empty"]
    /\ UNCHANGED retired
    /\ UNCHANGED nonHandles

NextHandles ==
    \/ \E t \in Threads : ResetHandle(t)
    \/ \E t \in Threads, v \in Ids : CreateVariable(t, v)
    \/ \E h \in HandleSpace : GetVariablesLookup(h)

(* -------------------------- breakpoint sync ---------------------------- *)

\* source files with breakpoints, in the order of their first breakpoint in
\* debug.breakpoints; files 1 and 2 belong to connection 1, file 3 to 2
Files == {1, 2, 3}
\* bp.location.uri.authority
FileConn(f) == IF f <= 2 THEN 1 ELSE 2
\* the breakpoint lines (bp.location.range.start.line) a file can have
BpLists == {<<>>, <<0>>, <<0, 1>>}
\* concurrently running sync calls
Syncs == {1, 2}
\* changes of the editor's breakpoint set explored
MaxChanges == 3

Min(S) == CHOOSE x \in S : \A y \in S : x <= y
Max(S) == CHOOSE x \in S : \A y \in S : y <= x

\* debugBps: the line numbers sent for the breakpoints bps of one file
DebugBps(bps) == [i \in 1..Len(bps) |-> bps[i] + 1]

\* byFile of syncBreakpoints(listener, connId): the declared breakpoints whose
\* uri authority is connId, by file
ByFile(c, decl) == [f \in Files |-> IF FileConn(f) = c THEN decl[f] ELSE <<>>]

\* the keys of byFile that the loop over byFile has still to visit
Pending(snap, after) == {f \in Files : f > after /\ snap[f] # <<>>}

\* no sync call runs in the slot
NoSync == [pc |-> "idle"]
NoSyncEnd == [s |-> 0, how |-> "none"]

\* the call awaits listener.breakpointManager.setBreakpoints for file f
Pushing(origin, c, snap, f, visited) ==
    [pc |-> "push", origin |-> origin, conn |-> c, snap |-> snap, file |-> f,
     arg |-> DebugBps(snap[f]), visited |-> visited]

\* the entries of this.listeners the loop of syncAllBreakpoints has still to
\* visit
Rest(visited, L) == {c \in Conns : ListenersHas(L, c) /\ c \notin visited}

\* syncAllBreakpoints from its loop head up to the next setBreakpoints call:
\* connections without declared breakpoints are passed without a remote call
RECURSIVE SyncAll(_, _, _)
SyncAll(visited, L, decl) ==
    IF Rest(visited, L) = {} THEN NoSync
    ELSE LET c == Min(Rest(visited, L))
             snap == ByFile(c, decl)
         IN IF Pending(snap, 0) = {}
            THEN SyncAll(visited \cup {c}, L, decl)
            ELSE Pushing("change", c, snap, Min(Pending(snap, 0)),
                         visited \cup {c})

\* syncBreakpoints(listener, connId) as startListener calls it
SyncOne(c, decl) ==
    LET snap == ByFile(c, decl)
    IN IF Pending(snap, 0) = {} THEN NoSync
       ELSE Pushing("start", c, snap, Min(Pending(snap, 0)), {c})

\* where a sync call is after it started or after a setBreakpoints resolved
Landed(s, next) ==
    /\ sync' = [sync EXCEPT ![s] = next]
    /\ syncEnd' = IF next.pc = "idle" THEN [s |-> s, how |-> "done"]
                  ELSE NoSyncEnd

FreeSync(s) == sync[s].pc = "idle" /\ \A j \in Syncs : j < s => sync[j].pc # "idle"

InitSync ==
    /\ declared = [f \in Files |-> <<>>]
    /\ sync = [s \in Syncs |-> NoSync]
    /\ syncEnd = NoSyncEnd
    /\ remote = [f \in Files |-> <<>>]
    /\ syncLog = [rejected |-> FALSE, concurrent |-> FALSE, changes |-> 0]

\* the editor's breakpoint set changes (debug.onDidChangeBreakpoints): the
\* handler calls syncAllBreakpoints if the manager is active
ChangeBreakpoints(f, bps) ==
    /\ syncLog.changes < MaxChanges
    /\ bps # declared[f]
    /\ declared' = [declared EXCEPT ![f] = bps]
    /\ IF active
       THEN \E s \in Syncs : FreeSync(s) /\ Landed(s, SyncAll({}, listeners, declared'))
       ELSE sync' = sync /\ syncEnd' = NoSyncEnd
    /\ syncLog' = [syncLog EXCEPT
          !.concurrent = @ \/ \E s \in Syncs : sync[s].pc = "push",
          !.changes = @ + 1]
    /\ UNCHANGED <<lvars, nonSync, remote>>

\* startListener from the moment DebugListener.create has resolved: the
\* listener is registered, the manager becomes active and the initial
\* syncBreakpoints is called
ListenerRegistered(c) ==
    /\ ~ListenersHas(listeners, c)
    /\ listeners' = [listeners EXCEPT ![c] = 1]
    /\ active' = TRUE
    /\ \E s \in Syncs : FreeSync(s) /\ Landed(s, SyncOne(c, declared))
    /\ UNCHANGED <<pc, conn, last, handedOff, staleWait, quiet>>
    /\ UNCHANGED <<nonSync, declared, remote, syncLog>>

\* the awaited setBreakpoints call of sync call s resolves (ok): the remote
\* has replaced the file's breakpoints by the list sent; or it rejects.
\* A rejection leaves the loops over byFile and over this.listeners: in
\* startListener it is caught, in the change handler nobody awaits it.
SetBreakpointsSettled(s, ok) ==
    /\ sync[s].pc = "push"
    /\ IF ~ok
       THEN /\ sync' = [sync EXCEPT ![s] = NoSync]
            /\ syncEnd' = [s |-> s, how |-> "raised"]
            /\ syncLog' = [syncLog EXCEPT !.rejected = TRUE]
            /\ UNCHANGED remote
       ELSE LET t == sync[s]
            IN /\ remote' = [remote EXCEPT ![t.file] = t.arg]
               /\ UNCHANGED syncLog
               /\ IF Pending(t.snap, t.file) # {}
                  THEN Landed(s, Pushing(t.origin, t.conn, t.snap,
                                         Min(Pending(t.snap, t.file)), t.visited))
                  ELSE IF t.origin = "start"
                       THEN Landed(s, NoSync)
                       ELSE Landed(s, SyncAll(t.visited, listeners, declared))
    /\ UNCHANGED <<lvars, nonSync, declared>>

NextSync ==
    \/ \E f \in Files, bps \in BpLists : ChangeBreakpoints(f, bps)
    \/ \E c \in Conns : ListenerRegistered(c)
    \/ \E s \in Syncs, ok \in BOOLEAN : SetBreakpointsSettled(s, ok)
    \/ StopListener

(* ------------------------ fetchTableSlice, pMap ------------------------ *)

\* rows of the remote table (v.TABLE_LINES)
MaxLines == 3
\* number of fields a row structure can have
FieldCounts == {0, 1, 2}
\* the concurrency fetchTableSlice passes to pMap
Concurrency == 5
\* chunkSize: 200 in the code; 1 and 2 make the key list span several chunks
ChunkSizes == {1, 2, 200}
\* META_TYPE of the table's rows
RowKinds == {"structure", "simple"}
\* the worker coroutines (`next`) pMap can start
Workers == 1..(MaxLines * Max(FieldCounts))

\* `${v.ID}[${i + 1}]`: the key of row i (0-based) of the table
RowKey(i) == <<i + 1>>
\* the ID of field f of the row with ID rowId
FieldId(rowId, f) == rowId \o <<f>>
\* c.ID.slice(firstRow.ID.length)
Suffix(childId, rowId) == SubSeq(childId, Len(rowId) + 1, Len(childId))

\* keys the remote may have no value for
AbsentChoices == {{}, {<<1>>}, {<<2, 1>>}}

\* the "" a row object gets for a field without a value
EmptyString == 0
\* variableValue(v) of the remote variable with the given key
ValueOf(key) == IF Len(key) = 1 THEN key[1] ELSE 10 * key[1] + key[2]

\* the remote has a value for the key: the row exists and the key is none
\* of those it has no value for
Present(key, i) == key[1] <= i.lines /\ key \notin i.absent

\* client.debuggerVariables(keys) on the remote table of i: the variables
\* the remote has, in the order of the keys
RECURSIVE DebuggerVariables(_, _)
DebuggerVariables(keys, i) ==
    IF keys = <<>> THEN <<>>
    ELSE (IF Present(Head(keys), i)
          THEN <<[ID |-> Head(keys), VALUE |-> ValueOf(Head(keys))]>>
          ELSE <<>>)
         \o DebuggerVariables(Tail(keys), i)

\* client.debuggerChildVariables([firstRow.ID]).variables
DebuggerChildVariables(rowId, nf) ==
    [f \in 1..nf |-> [ID |-> FieldId(rowId, f), NAME |-> f]]

\* (variant: the range is not clamped to the table)
SliceEndUnclamped(i) == i.start + i.count
\* end = Math.min(start + count, v.TABLE_LINES)
SliceEnd(i) == IF i.start + i.count < i.lines THEN i.start + i.count ELSE i.lines

\* fields: name and suffix of every child of the first row
FieldsOf(children, rowId) ==
    [n \in 1..Len(children) |->
        [name |-> children[n].NAME, suffix |-> Suffix(children[n].ID, rowId)]]

\* allKeys: for every row of the range, for every field, rowId + f.suffix
AllKeys(start, end, fields) ==
    [n \in 1..((end - start) * Len(fields)) |->
        RowKey(start + ((n - 1) \div Len(fields)))
           \o fields[((n - 1) % Len(fields)) + 1].suffix]

\* (variant: every slice takes one key more than chunkSize)
ChunksOverlapping(keys, chunkSize) ==
    [j \in 1..((Len(keys) + chunkSize - 1) \div chunkSize) |->
        SubSeq(keys, (j - 1) * chunkSize + 1,
               IF j * chunkSize + 1 < Len(keys) THEN j * chunkSize + 1 ELSE Len(keys))]
\* (variant: a last chunk shorter than chunkSize is dropped)
ChunksFullOnly(keys, chunkSize) ==
    [j \in 1..(Len(keys) \div chunkSize) |->
        SubSeq(keys, (j - 1) * chunkSize + 1, j * chunkSize)]
\* chunks: allKeys.slice(i, i + chunkSize) for i = 0, chunkSize, ...
Chunks(keys, chunkSize) ==
    [j \in 1..((Len(keys) + chunkSize - 1) \div chunkSize) |->
        SubSeq(keys, (j - 1) * chunkSize + 1,
               IF j * chunkSize < Len(keys) THEN j * chunkSize ELSE Len(keys))]

\* results.flat()
RECURSIVE Flat(_)
Flat(results) ==
    IF results = <<>> THEN <<>> ELSE Head(results) \o Flat(Tail(results))

\* (variant: the entry is looked up by the row of the key alone)
MapGetByRow(flat, key) ==
    LET hits == {n \in 1..Len(flat) : flat[n].ID[1] = key[1]}
    IN IF hits = {} THEN [ID |-> <<>>, VALUE |-> EmptyString]
       ELSE flat[CHOOSE n \in hits : \A m \in hits : m <= n]
\* new Map(flatResults.map(v => [v.ID, v])).get(key): the last entry with the
\* key, if any
MapGet(flat, key) ==
    LET hits == {n \in 1..Len(flat) : flat[n].ID = key}
    IN IF hits = {} THEN [ID |-> <<>>, VALUE |-> EmptyString]
       ELSE flat[CHOOSE n \in hits : \A m \in hits : m <= n]

\* rows of the structured branch: one object per row, one entry per field
RowsFrom(flat, start, end, fields) ==
    [r \in 1..(end - start) |->
        [name \in {fields[n].name : n \in 1..Len(fields)} |->
            LET n == CHOOSE m \in 1..Len(fields) :
                        /\ fields[m].name = name
                        /\ \A k \in 1..Len(fields) : fields[k].name = name => k <= m
            IN MapGet(flat, RowKey(start + r - 1) \o fields[n].suffix).VALUE]]

\* rows of the other branch: linevars.map(lv => ({ "VALUE": variableValue(lv) }))
LineRows(linevars) == [n \in 1..Len(linevars) |-> [VALUE |-> linevars[n].VALUE]]

\* the arguments of a fetchTableSlice call together with the remote table
Inputs ==
    [lines : 0..MaxLines, kind : RowKinds, nf : FieldCounts,
     start : 0..MaxLines, count : 0..(MaxLines + 1), chunk : ChunkSizes,
     absent : AbsentChoices]

\* before the call: no arguments, no result
NoInput == [lines |-> 0]
NoFetch == [pc |-> "idle", out |-> "pending", fields |-> <<>>, work |-> <<>>]

\* the call as it begins
NewFetch ==
    [pc |-> "idle", out |-> "pending", rows |-> <<>>, calls |-> 0,
     fields |-> <<>>, chunks |-> <<>>, index |-> 0,
     work |-> <<>>, results |-> <<>>, reordered |-> FALSE]

InitSlice ==
    /\ inp = NoInput
    /\ ft = NoFetch

\* fetchTableSlice returns rows
Returns(f, rows) == [f EXCEPT !.pc = "done", !.out = "returned", !.rows = rows]
\* fetchTableSlice rejects
Raises(f) == [f EXCEPT !.pc = "done", !.out = "raised"]

\* (variant: pMap starts one worker per item)
WorkerCountPerItem(n) == n
\* Array.from({ length: concurrency }, next): the workers pMap starts
WorkerCount(n) == Concurrency

\* the chunk requests that are outstanding
Outstanding(f) == {f.work[w] : w \in DOMAIN f.work} \ {0}

\* fetchTableSlice(client, v, start, count) on a table, up to its first await
FetchTableSliceCall(i) ==
    /\ ft.pc = "idle"
    /\ inp' = i
    /\ ft' = IF i.start >= SliceEnd(i) THEN Returns(NewFetch, <<>>)
             ELSE [NewFetch EXCEPT !.pc = "first", !.calls = 1]
    /\ UNCHANGED nonSlice

\* debuggerVariables([firstRowKey]) settles
FirstRowSettled(ok) ==
    /\ ft.pc = "first"
    /\ LET r == DebuggerVariables(<<RowKey(inp.start)>>, inp)
       IN ft' = IF ~ok THEN Raises(ft)
                ELSE IF r = <<>> THEN Returns(ft, <<>>)
                ELSE IF inp.kind = "structure"
                     THEN [ft EXCEPT !.pc = "children", !.calls = 2]
                     ELSE [ft EXCEPT !.pc = "lines", !.calls = 2]
    /\ UNCHANGED <<inp, nonSlice>>

\* (variant: the workers do not advance the shared index when they start)
PMapStartedSameItem(f, chunks) ==
    LET n == Len(chunks)
        started == IF WorkerCount(n) < n THEN WorkerCount(n) ELSE n
    IN [f EXCEPT !.pc = "chunks", !.chunks = chunks,
                 !.index = IF started > 0 THEN 1 ELSE 0,
                 !.work = [w \in Workers |-> IF w <= started THEN 1 ELSE 0],
                 !.results = [j \in 1..n |-> <<>>],
                 !.calls = @ + started]
\* pMap(chunks, mapper, concurrency) up to its await: every worker takes the
\* next index and calls the mapper, or ends if no item is left
PMapStarted(f, chunks) ==
    LET n == Len(chunks)
        started == IF WorkerCount(n) < n THEN WorkerCount(n) ELSE n
    IN [f EXCEPT !.pc = "chunks", !.chunks = chunks, !.index = started,
                 !.work = [w \in Workers |-> IF w <= started THEN w ELSE 0],
                 !.results = [j \in 1..n |-> <<>>],
                 !.calls = @ + started]

\* the rows built once pMap has resolved
Assembled(f) ==
    Returns(f, RowsFrom(Flat(f.results), inp.start, SliceEnd(inp), f.fields))

\* debuggerChildVariables([firstRow.ID]) settles: fields, allKeys and chunks
\* are built and pMap is called
ChildrenSettled(ok) ==
    /\ ft.pc = "children"
    /\ LET rowId == RowKey(inp.start)
           fields == FieldsOf(DebuggerChildVariables(rowId, inp.nf), rowId)
           chunks == Chunks(AllKeys(inp.start, SliceEnd(inp), fields), inp.chunk)
           f == PMapStarted([ft EXCEPT !.fields = fields], chunks)
       IN ft' = IF ~ok THEN Raises(ft)
                ELSE IF Outstanding(f) = {} THEN Assembled(f) ELSE f
    /\ UNCHANGED <<inp, nonSlice>>

\* the mapper call of worker w settles.  Resolved: the result is stored at the
\* item's index and the worker takes the next item, if any; when the last
\* worker ends, pMap resolves and the rows are built.  Rejected: the worker
\* ends, pMap and with it fetchTableSlice reject; the other workers go on.
ChunkSettled(w, ok) ==
    /\ ft.pc \in {"chunks", "done"}
    /\ w \in DOMAIN ft.work
    /\ ft.work[w] # 0
    /\ LET j == ft.work[w]
           more == ft.index < Len(ft.chunks)
           f == IF ~ok
                THEN [ft EXCEPT !.work[w] = 0, !.out = "raised"]
                ELSE [ft EXCEPT
                        !.results[j] = DebuggerVariables(ft.chunks[j], inp),
                        !.reordered = @ \/ \E k \in Outstanding(ft) : k < j,
                        !.work[w] = IF more THEN ft.index + 1 ELSE 0,
                        !.index = IF more THEN @ + 1 ELSE @,
                        !.calls = IF more THEN @ + 1 ELSE @]
       IN ft' = IF Outstanding(f) # {} THEN f
                ELSE IF f.out = "pending" THEN Assembled(f)
                ELSE [f EXCEPT !.pc = "done"]
    /\ UNCHANGED <<inp, nonSlice>>

\* debuggerVariables(keys) of the branch for rows that are no structures
\* settles
LinesSettled(ok) ==
    /\ ft.pc = "lines"
    /\ LET keys == [n \in 1..(SliceEnd(inp) - inp.start) |-> RowKey(inp.start + n - 1)]
       IN ft' = IF ~ok THEN Raises(ft)
                ELSE Returns(ft, LineRows(DebuggerVariables(keys, inp)))
    /\ UNCHANGED <<inp, nonSlice>>

NextSlice ==
    \/ \E i \in Inputs : FetchTableSliceCall(i)
    \/ \E ok \in BOOLEAN : FirstRowSettled(ok)
    \/ \E ok \in BOOLEAN : ChildrenSettled(ok)
    \/ \E w \in Workers, ok \in BOOLEAN : ChunkSettled(w, ok)
    \/ \E ok \in BOOLEAN : LinesSettled(ok)

(* ----------------------- evaluate, setVariable ------------------------- *)

\* an absent frameId argument
NoFrame == -1
\* frame ids evaluate is called with: absent, one that decodes to thread 0,
\* one of thread 1, one of thread 2
Frames == {NoFrame, 0, STACK_THREAD_MULTIPLIER, STACK_THREAD_MULTIPLIER * 2}

\* expressions, as sequences of the tokens `json(`, a name, `)`, a blank
Exprs ==
    {<<"X">>, <<"json(", "X", ")">>, <<"json(", "X", ")", " ">>,
     <<"json(", ")">>, <<"json(", "X">>, <<"json(", "X", ")", ")">>,
     <<" ", "json(", "X", ")">>}

NoMatch == <<"no match">>

\* the positions of e from which on only white space follows
OnlySpaceAfter(e, p) == \A q \in (p + 1)..Len(e) : e[q] = " "

\* (variant: the group runs up to and including the closing parenthesis)
JsonInnerWithParen(e) ==
    IF Len(e) >= 2 /\ e[1] = "json(" /\ \E p \in 2..Len(e) : e[p] = ")" /\ OnlySpaceAfter(e, p)
    THEN SubSeq(e, 2, CHOOSE p \in 2..Len(e) : e[p] = ")" /\ OnlySpaceAfter(e, p))
    ELSE NoMatch
\* expression.match(/^json\((.*)\)\s*$/)?.[1]
JsonInner(e) ==
    IF Len(e) >= 2 /\ e[1] = "json(" /\ \E p \in 2..Len(e) : e[p] = ")" /\ OnlySpaceAfter(e, p)
    THEN SubSeq(e, 2, (CHOOSE p \in 2..Len(e) : e[p] = ")" /\ OnlySpaceAfter(e, p)) - 1)
    ELSE NoMatch

\* what dumpJson(client, name) resolves with: the variable X is a string,
\* no other name is known to the remote
DumpJson(name) ==
    IF name = <<"X">> THEN [t |-> "string", v |-> "A"] ELSE [t |-> "undefined", v |-> ""]

\* JSON.stringify(json, null, 1)
Stringify(j) ==
    CASE j.t = "string" -> <<"\"", j.v, "\"">>
      [] j.t = "number" -> <<j.v>>
      [] OTHER -> <<"undefined">>

\* what debuggerVariables([expression]) may resolve with: no variable, a
\* simple one, a complex one (debugMetaIsComplex)
VarKinds == {"absent", "simple", "complex"}

\* before the first call
NoOp == [name |-> "none", pc |-> "idle"]

\* a call as it begins
NewOp ==
    [name |-> "none", pc |-> "idle", thread |-> 0, client |-> FALSE,
     expr |-> <<>>, mode |-> "none", ref |-> 0, out |-> "none",
     result |-> <<>>, handle |-> 0, calls |-> 0, rejected |-> FALSE]

InitOps == op = NoOp

\* the call o returns out
Ends(o, out) == [o EXCEPT !.pc = "done", !.out = out]

\* (variant: what is raised inside setVariable reaches the caller)
SetVariableRaises(o) == Ends(o, "raised")
\* the catch block of setVariable: return { value: "", success: false }
SetVariableCatch(o) == [Ends(o, "failed") EXCEPT !.result = <<>>]

\* evaluate(expression, frameId) up to its first await
EvaluateCall(e, frame, hasClient) ==
    /\ op.pc # "await"
    /\ LET threadId == IF frame = NoFrame THEN 0 ELSE idThread(frame)
           o == [NewOp EXCEPT !.name = "evaluate", !.thread = threadId,
                             !.client = hasClient, !.expr = e]
       IN /\ threadId \in Threads => Cardinality(Live(threadId)) < MaxAlloc
          /\ op' = IF threadId = 0 THEN Ends(o, "undefined")
                   ELSE IF ~hasClient THEN Ends(o, "undefined")
                   ELSE IF JsonInner(e) # NoMatch /\ JsonInner(e) # <<>>
                        THEN [o EXCEPT !.pc = "await", !.mode = "json", !.calls = 1]
                        ELSE [o EXCEPT !.pc = "await", !.mode = "plain", !.calls = 1]
    /\ UNCHANGED <<hvars, nonOps>>

\* the awaited dumpJson or debuggerVariables call of evaluate settles; a
\* rejection is caught and evaluate returns undefined
EvaluateSettled(ok, kind) ==
    /\ op.name = "evaluate" /\ op.pc = "await"
    /\ IF ~ok
       THEN op' = [Ends(op, "undefined") EXCEPT !.rejected = TRUE] /\ UNCHANGED handles
       ELSE IF op.mode = "json"
       THEN /\ op' = [Ends(op, "value") EXCEPT
                        !.result = Stringify(DumpJson(JsonInner(op.expr))),
                        !.handle = 0]
            /\ UNCHANGED handles
       ELSE IF kind = "absent" THEN op' = Ends(op, "undefined") /\ UNCHANGED handles
       ELSE IF kind = "simple"
       THEN op' = [Ends(op, "value") EXCEPT !.result = <<"value">>, !.handle = 0]
            /\ UNCHANGED handles
       ELSE LET c == HandlesCreate(variableHandles(handles, op.thread),
                                   [id |-> "LT_TAB", threadId |-> op.thread])
            IN /\ handles' = [handles EXCEPT ![op.thread] = c.tab]
               /\ op' = [Ends(op, "value") EXCEPT !.result = <<"table">>,
                                                  !.handle = c.handle]
    /\ UNCHANGED <<retired, lookup, nonOps>>

\* h.id.match(/^@/): the descriptor is a scope
IsScope(id) == id \in {"@ROOT"}

\* setVariable(reference, name, inputValue) up to its await.  Without a
\* client it returns at once; a handle that is not found makes `h.id` raise,
\* which the catch block turns into the same result.
SetVariableCall(reference, hasClient) ==
    /\ op.pc # "await"
    /\ idThread(reference) \in Threads
    /\ LET threadId == idThread(reference)
           o == [NewOp EXCEPT !.name = "setVariable", !.thread = threadId,
                             !.client = hasClient, !.ref = reference]
           h == HandlesGet(variableHandles(handles, threadId), reference)
       IN IF ~hasClient
          THEN op' = Ends(o, "failed") /\ UNCHANGED handles
          ELSE /\ handles' = [handles EXCEPT ![threadId] = variableHandles(handles, threadId)]
               /\ op' = IF h = NotFound THEN SetVariableCatch(o)
                        ELSE [o EXCEPT !.pc = "await", !.calls = 1,
                                       !.expr = IF IsScope(h.id) THEN <<"NAME">>
                                                ELSE <<h.id, "-", "NAME">>]
    /\ UNCHANGED <<retired, lookup, nonOps>>

\* debuggerSetVariableValue settles
SetVariableSettled(ok) ==
    /\ op.name = "setVariable" /\ op.pc = "await"
    /\ op' = IF ok THEN [Ends(op, "success") EXCEPT !.result = <<"value">>]
             ELSE SetVariableCatch([op EXCEPT !.rejected = TRUE])
    /\ UNCHANGED <<hvars, nonOps>>

NextOps ==
    \/ \E e \in Exprs, frame \in Frames, hasClient \in BOOLEAN : EvaluateCall(e, frame, hasClient)
    \/ \E ok \in BOOLEAN, kind \in VarKinds : EvaluateSettled(ok, kind)
    \/ \E reference \in HandleSpace, hasClient \in BOOLEAN : SetVariableCall(reference, hasClient)
    \/ \E ok \in BOOLEAN : SetVariableSettled(ok)
    \/ \E t \in Threads : ResetHandle(t)

(* ------------------------------ dumpJson ------------------------------- *)

\* META_TYPE values of the last case group of dumpJson
UnprocessableMetas ==
    {"unknown", "dataref", "boxedcomp", "anonymcomp", "objectref", "class",
     "object", "boxref"}
\* META_TYPE values with components or rows
ContainerMetas == {"structure", "table"}

\* a remote value: its META_TYPE, its TECHNICAL_TYPE (a sequence of letters),
\* its components or rows, and its VALUE (a sequence of characters)
Leaf(meta, tech, value) == [meta |-> meta, tech |-> tech, kids |-> <<>>, value |-> value]
Container(meta, kids) == [meta |-> meta, tech |-> <<>>, kids |-> kids, value |-> <<>>]

\* scalars: a character field with a trailing blank, an integer, a string
ScalarLeaves ==
    {Leaf("simple", <<"C">>, <<"a", " ">>), Leaf("simple", <<"I">>, <<"7">>),
     Leaf("string", <<"S", "T", "R", "I", "N", "G">>, <<"b", " ">>)}
\* the values rows and components are drawn from
RowLeaves == {Leaf("simple", <<"C">>, <<"a", " ">>), Leaf("simple", <<"I">>, <<"7">>),
              Leaf("class", <<>>, <<>>)}

\* structures and tables of up to MaxLines scalars or references
FlatValues ==
    {Container(m, k) : m \in ContainerMetas,
                       k \in UNION {[1..n -> RowLeaves] : n \in 0..MaxLines}}
\* structures and tables that hold a structure or a table
NestedValues ==
    {Container(m, k) : m \in ContainerMetas,
                       k \in UNION {{<<c>>, <<c, Leaf("string", <<"S", "T", "R", "I", "N", "G">>, <<"b", " ">>)>>,
                                     <<Leaf("object", <<>>, <<>>), c>>} : c \in FlatValues}}
\* a table of MaxLines structures with two fields each
Fixture ==
    Container("table",
              [r \in 1..MaxLines |->
                  Container("structure",
                            <<Leaf("simple", <<"C">>, <<ToString(r), " ">>),
                              Leaf("string", <<"S", "T", "R", "I", "N", "G">>, <<"b">>)>>)])

\* the value trees the remote can hold under the name dumped
Trees ==
    ScalarLeaves \cup {Leaf(m, <<>>, <<>>) : m \in UnprocessableMetas}
       \cup FlatValues \cup NestedValues \cup {Fixture}

\* the remote value with the given ID (the path from the variable dumped)
RECURSIVE ValueAt(_, _)
ValueAt(tree, id) ==
    IF id = <<>> THEN tree ELSE ValueAt(tree.kids[Head(id)], Tail(id))

\* the remote has a value with the given ID
RECURSIVE HasValue(_, _)
HasValue(tree, id) ==
    \/ id = <<>>
    \/ /\ Head(id) \in 1..Len(tree.kids)
       /\ HasValue(tree.kids[Head(id)], Tail(id))

\* NAME of the n-th component of a structure
CompName(n) == IF n = 1 THEN "F1" ELSE IF n = 2 THEN "F2" ELSE "F" \o ToString(n)

\* the DebugVariable the remote returns for an ID
DebugVariable(tree, id) ==
    LET v == ValueAt(tree, id)
    IN [ID |-> id,
        NAME |-> IF id = <<>> THEN "ROOT" ELSE CompName(id[Len(id)]),
        META_TYPE |-> v.meta, TECHNICAL_TYPE |-> v.tech,
        TABLE_LINES |-> IF v.meta = "table" THEN Len(v.kids) ELSE 0,
        VALUE |-> v.value]

\* client.debuggerVariables(keys) on the tree: the variables that exist
RECURSIVE TreeVariables(_, _)
TreeVariables(tree, keys) ==
    IF keys = <<>> THEN <<>>
    ELSE (IF HasValue(tree, Head(keys)) THEN <<DebugVariable(tree, Head(keys))>>
          ELSE <<>>)
         \o TreeVariables(tree, Tail(keys))

\* client.debuggerChildVariables([v.ID]).variables on the tree
TreeChildVariables(tree, id) ==
    [n \in 1..Len(ValueAt(tree, id).kids) |-> DebugVariable(tree, id \o <<n>>)]

\* v.VALUE.trimEnd()
RECURSIVE TrimEnd(_)
TrimEnd(value) ==
    IF value # <<>> /\ value[Len(value)] = " "
    THEN TrimEnd(SubSeq(value, 1, Len(value) - 1))
    ELSE value

\* v.TECHNICAL_TYPE.match(/B|S|I|INT8|P|N|DECFLOAT16|DECFLOAT34|F/): the
\* pattern is not anchored, so it matches every type name that has one of
\* the letters B, S, I, P, N, F (the longer alternatives have one as well)
IsNumericType(tech) ==
    \E n \in 1..Len(tech) : tech[n] \in {"B", "S", "I", "P", "N", "F"}

\* (variant: the key of row k is built without the + 1)
TableKeysFromZero(v) == [n \in 1..v.TABLE_LINES |-> v.ID \o <<n - 1>>]
\* [...Array(v.TABLE_LINES).keys()].map(k => `${v.ID}[${k + 1}]`)
TableKeys(v) == [n \in 1..v.TABLE_LINES |-> v.ID \o <<(n - 1) + 1>>]

\* dumpJson(client, v) for a DebugVariable v: the JSON value as a sequence of
\* tokens and the number of remote calls made
RECURSIVE dumpJson(_, _)
\* the loop over comps (structure, named) or linevars (table)
RECURSIVE DumpEach(_, _, _, _)
DumpEach(tree, vs, named, acc) ==
    IF vs = <<>> THEN acc
    ELSE LET cv == dumpJson(tree, Head(vs))
         IN DumpEach(tree, Tail(vs), named,
                     [json |-> acc.json
                                  \o (IF named THEN <<Head(vs).NAME, ":">> ELSE <<>>)
                                  \o cv.json \o <<",">>,
                      calls |-> acc.calls + cv.calls])

dumpJson(tree, v) ==
    CASE v.META_TYPE = "simple" ->
            [json |-> IF IsNumericType(v.TECHNICAL_TYPE)
                      THEN <<"number">> \o TrimEnd(v.VALUE)
                      ELSE <<"string">> \o TrimEnd(v.VALUE),
             calls |-> 0]
      [] v.META_TYPE = "string" ->
            [json |-> <<"string">> \o TrimEnd(v.VALUE), calls |-> 0]
      [] v.META_TYPE = "structure" ->
            LET r == DumpEach(tree, TreeChildVariables(tree, v.ID), TRUE,
                              [json |-> <<"{">>, calls |-> 1])
            IN [r EXCEPT !.json = @ \o <<"}">>]
      [] v.META_TYPE = "table" ->
            LET r == DumpEach(tree, TreeVariables(tree, TableKeys(v)), FALSE,
                              [json |-> <<"[">>, calls |-> 1])
            IN [r EXCEPT !.json = @ \o <<"]">>]
      [] v.META_TYPE \in UnprocessableMetas ->
            [json |-> <<"string", "Unprocessable:", v.META_TYPE>>, calls |-> 0]
      [] OTHER -> [json |-> <<"undefined">>, calls |-> 0]

\* before the call
NoDump == [pc |-> "idle"]

InitDump == dj = NoDump

\* dumpJson(client, name) with a name: debuggerVariables([name]) is awaited
DumpJsonCall(tree, known) ==
    /\ dj.pc = "idle"
    /\ dj' = [pc |-> "await", tree |-> tree, known |-> known, resolved |-> 0,
              out |-> "pending", json |-> <<>>]
    /\ UNCHANGED nonDump

\* the awaited remote call settles: debuggerVariables([name]) first, then
\* one call per structure and table in the order dumpJson walks them.  A
\* rejection is not caught.  `if (!v) return` ends the call with undefined.
DumpJsonSettled(ok) ==
    /\ dj.pc = "await"
    /\ LET run == dumpJson(dj.tree, DebugVariable(dj.tree, <<>>))
       IN dj' = IF ~ok THEN [dj EXCEPT !.pc = "done", !.out = "raised"]
                ELSE IF ~dj.known
                THEN [dj EXCEPT !.pc = "done", !.out = "returned",
                                !.resolved = 1, !.json = <<"undefined">>]
                ELSE IF dj.resolved < run.calls
                THEN [dj EXCEPT !.resolved = @ + 1]
                ELSE [dj EXCEPT !.pc = "done", !.out = "returned",
                                !.resolved = @ + 1, !.json = run.json]
    /\ UNCHANGED nonDump

NextDump ==
    \/ \E tree \in Trees, known \in BOOLEAN : DumpJsonCall(tree, known)
    \/ \E ok \in BOOLEAN : DumpJsonSettled(ok)

(* ------------------------------ getScopes ------------------------------ *)

\* getScopes calls explored
MaxGetScopes == 3
\* getScopes calls that can be under way at a time
ScopeCalls == {1, 2}
\* frame ids getScopes is called with: three of thread 1, one of thread 2
ScopeFrames ==
    {STACK_THREAD_MULTIPLIER, STACK_THREAD_MULTIPLIER + 1,
     STACK_THREAD_MULTIPLIER + 2, STACK_THREAD_MULTIPLIER * 2}

\* this.stackTrace(threadId).find(s => s.id === frameId) finds an entry with
\* a stack position: the last frame id of thread 1 is not in the stack trace
InStackTrace(frameId) == frameId # STACK_THREAD_MULTIPLIER + 2

\* what debuggerChildVariables(["@ROOT"]) may report as hierarchies
Hierarchies ==
    {<<>>,
     <<[CHILD_ID |-> "@LOCALS", CHILD_NAME |-> "Locals"],
       [CHILD_ID |-> "@GLOBALS", CHILD_NAME |-> ""]>>}

\* h.CHILD_NAME || h.CHILD_ID
ScopeName(h) == IF h.CHILD_NAME # "" THEN h.CHILD_NAME ELSE h.CHILD_ID

\* no call in the slot
NoScopeCall == [pc |-> "idle"]

\* a getScopes call as it begins
NewScopeCall(frameId) ==
    [pc |-> "idle", frame |-> frameId, thread |-> idThread(frameId),
     moved |-> FALSE, stale |-> FALSE, served |-> NoFrame, hier |-> <<>>,
     scopes |-> <<>>, out |-> "pending"]

InitScopes ==
    gs = [cur |-> 0,
          n |-> 0,
          call |-> [k \in ScopeCalls |-> NoScopeCall],
          ended |-> NoScopeCall,
          cursor |-> [t \in Threads |-> NoFrame],
          queue |-> [t \in Threads |-> <<>>]]

\* the call is suspended in an await
Awaiting(c) == c.pc \in {"goto", "read"}

\* (variant: the SY scope is added only when the remote reports no hierarchy)
SyScopeIfEmpty(made, t) ==
    IF made.scopes # <<>> THEN made
    ELSE LET c == HandlesCreate(made.tab, [id |-> "SY", threadId |-> t])
         IN [tab |-> c.tab,
             scopes |-> made.scopes \o <<[name |-> "SY", handle |-> c.handle]>>]
\* const syhandler = this.createVariable(threadId, { id: "SY", name: "SY" });
\* scopes.push(new Scope("SY", syhandler, true))
SyScope(made, t) ==
    LET c == HandlesCreate(made.tab, [id |-> "SY", threadId |-> t])
    IN [tab |-> c.tab,
        scopes |-> made.scopes \o <<[name |-> "SY", handle |-> c.handle]>>]

\* hierarchies.map(h => ...): one scope per entry, each with a handle created
\* in the thread's table
RECURSIVE MapHierarchies(_, _, _)
MapHierarchies(hier, made, t) ==
    IF hier = <<>> THEN made
    ELSE LET c == HandlesCreate(made.tab, [id |-> Head(hier).CHILD_ID, threadId |-> t])
         IN MapHierarchies(Tail(hier),
                           [tab |-> c.tab,
                            scopes |-> made.scopes
                               \o <<[name |-> ScopeName(Head(hier)), handle |-> c.handle]>>],
                           t)

\* getScopes(frameId) up to its first await: without a client it returns [];
\* it awaits debuggerGoToStack if the frame is in the stack trace and is not
\* currentStackId, and debuggerChildVariables(["@ROOT"]) otherwise
GetScopesCall(k, frameId, hasClient) ==
    /\ gs.n < MaxGetScopes
    /\ ~Awaiting(gs.call[k])
    /\ \A j \in ScopeCalls : j < k => Awaiting(gs.call[j])
    /\ LET t == idThread(frameId)
           c == NewScopeCall(frameId)
           go == InStackTrace(frameId) /\ frameId # gs.cur
       IN gs' = IF ~hasClient
                THEN [gs EXCEPT !.n = @ + 1,
                                !.ended = [c EXCEPT !.pc = "done", !.out = "empty"]]
                ELSE [gs EXCEPT
                        !.n = @ + 1,
                        !.ended = NoScopeCall,
                        !.call[k] = [c EXCEPT !.pc = IF go THEN "goto" ELSE "read",
                                              !.moved = go],
                        !.queue[t] = Append(@, k)]
    /\ UNCHANGED <<hvars, nonScopes>>

\* the remote serves the oldest request of thread t and the awaiting call
\* goes on.  debuggerGoToStack: the cursor moves, currentStackId is set and
\* debuggerChildVariables(["@ROOT"]) is called.  debuggerChildVariables: the
\* hierarchies of the frame the cursor is on are reported, the scopes are
\* created and returned.  A rejection is not caught.
RemoteServes(t, ok, hier) ==
    /\ gs.queue[t] # <<>>
    /\ LET k == Head(gs.queue[t])
           c == gs.call[k]
           made == SyScope(MapHierarchies(hier,
                              [tab |-> variableHandles(handles, t), scopes |-> <<>>], t), t)
       IN IF ~ok
          THEN /\ gs' = [gs EXCEPT !.queue[t] = Tail(@),
                                   !.call[k] = NoScopeCall,
                                   !.ended = [c EXCEPT !.pc = "done", !.out = "raised"]]
               /\ UNCHANGED handles
          ELSE IF c.pc = "goto"
          THEN /\ gs' = [gs EXCEPT !.cursor[t] = c.frame,
                                   !.cur = c.frame,
                                   !.queue[t] = Append(Tail(@), k),
                                   !.call[k] = [c EXCEPT !.pc = "read"],
                                   !.ended = NoScopeCall]
               /\ UNCHANGED handles
          ELSE /\ handles' = [handles EXCEPT ![t] = made.tab]
               /\ gs' = [gs EXCEPT
                           !.queue[t] = Tail(@),
                           !.call[k] = NoScopeCall,
                           !.ended = [c EXCEPT !.pc = "done", !.out = "returned",
                                               !.served = gs.cursor[t],
                                               !.hier = hier,
                                               !.scopes = made.scopes]]
    /\ UNCHANGED <<retired, lookup, nonScopes>>

\* resetHandle(threadId) on a new stop of the thread, possibly while getScopes
\* calls for the thread are awaiting the remote
ResetHandleOnStop(t) ==
    /\ handles' = [handles EXCEPT ![t] = NewHandles(StartHandle(t))]
    /\ retired' = [retired EXCEPT ![t] = @ \cup Live(t)]
    /\ gs' = [gs EXCEPT
          !.ended = NoScopeCall,
          !.call = [k \in ScopeCalls |->
              IF Awaiting(gs.call[k]) /\ gs.call[k].thread = t
              THEN [gs.call[k] EXCEPT !.stale = TRUE] ELSE gs.call[k]]]
    /\ UNCHANGED <<lookup, nonScopes>>

NextScopes ==
    \/ \E k \in ScopeCalls, frameId \in ScopeFrames, hasClient \in BOOLEAN :
          GetScopesCall(k, frameId, hasClient)
    \/ \E t \in Threads, ok \in BOOLEAN, hier \in Hierarchies : RemoteServes(t, ok, hier)
    \/ \E t \in Threads : ResetHandleOnStop(t)

(* --------------------------- specifications ---------------------------- *)

Init == InitListener /\ InitHandles /\ InitSync /\ InitSlice /\ InitOps /\ InitDump
          /\ InitScopes

\* the attach listener
Spec == Init /\ [][NextListener]_vars

\* the attach listener; the 1000 ms timer a loop waits for always fires
FairSpec == Spec /\ \A k \in Calls : WF_vars(DelayElapsed(k))

\* the handle registry
SpecHandles == Init /\ [][NextHandles]_vars

\* the breakpoint sync
SpecSync == Init /\ [][NextSync]_vars

\* fetchTableSlice and the batch runner
SpecSlice == Init /\ [][NextSlice]_vars

\* evaluate and setVariable on the handle tables
SpecOps == Init /\ [][NextOps]_vars

\* dumpJson on a remote value tree
SpecDump == Init /\ [][NextDump]_vars

\* getScopes with the remote cursor and resets of the handle tables
SpecScopes == Init /\ [][NextScopes]_vars

(* ------------------------------ claims --------------------------------- *)

\* loop k calls debuggerListen in this step
IssuesPoll(k) == last'.k = k /\ last'.polled
\* loop k calls debug.startDebugging in this step
StartsSession(k) == pc[k] # "handoff" /\ pc'[k] = "handoff"
\* the debuggerListen of loop k ends in a failure of the given kind
PollFails(k, kind) == pc[k] = "poll" /\ last'.k = k /\ last'.failure = kind

\* the connection of call k is in the registry
Registered(k) == conn[k] \in Conns /\ ListenersHas(listeners, conn[k])

\* C1: at any time at most one debuggerListen call is in flight per
\* connection id (at most one listener loop per connection).
C1_OnePollPerConnection ==
    \A c \in Conns : Cardinality({k \in Calls : conn[k] = c /\ pc[k] = "poll"}) <= 1

\* C2: a startListener whose connection already has a registered listener is
\* refused and reported: the registry and the active flag stay as they are,
\* no debuggerListen is issued, and the call never proceeds to create, sync
\* or loop.
C2_DuplicateStartRefused ==
    [][\A k \in Calls :
         /\ \A c \in Conns :
              (pc[k] = "pick" /\ pc'[k] # "pick" /\ conn'[k] = c
                 /\ ListenersHas(listeners, c))
              => /\ pc'[k] = "refused"
                 /\ last'.msg = "alreadyRunning"
                 /\ listeners' = listeners
                 /\ active' = active
                 /\ ~last'.polled
         /\ pc[k] = "refused" => pc'[k] = "refused"]_vars

C2_Witness ==
    \E k \in Calls :
       /\ pc[k] = "refused"
       /\ last.msg = "alreadyRunning"
       /\ \E j \in Calls : j # k /\ conn[j] = conn[k] /\ pc[j] = "poll"

\* C3: a loop starts at most one debug session; the connection is
\* deregistered when the session start is issued; after it the loop issues
\* no further debuggerListen.
C3_AtMostOneHandoff ==
    [][\A k \in Calls :
         /\ StartsSession(k) =>
              ~handedOff[k] /\ ~ListenersHas(listeners', conn[k])
         /\ handedOff[k] => ~IssuesPoll(k)]_vars

\* C4: a loop whose connection stopListener deregistered while its
\* debuggerListen was in flight issues no further debuggerListen and starts
\* no debug session.
C4_StoppedLoopIgnoresResult ==
    [][\A k \in Calls : staleWait[k] => ~IssuesPoll(k) /\ ~StartsSession(k)]_vars

\* C7: when a debuggerListen ends in a failure that is not the listener
\* timeout, the loop does not issue the next debuggerListen at once: it goes
\* through the 1 s delay (or leaves).
C7_BackoffAfterError ==
    [][\A k \in Calls :
         PollFails(k, "error")
         => (~IssuesPoll(k) /\ pc'[k] \in {"backoff", "exited"})]_vars

\* C8: when a debuggerListen ends with the listener timeout while the
\* connection is registered, the loop issues the next debuggerListen at once.
C8_TimeoutLoopsImmediately ==
    [][\A k \in Calls :
         (PollFails(k, "timeout") /\ ListenersHas(listeners, conn[k]))
         => IssuesPoll(k)]_vars

\* C9: no result of debuggerListen ends the loop: a polling or delaying loop
\* leaves only when its connection is not registered or by handing off, and
\* a loop delayed after a failure does not stay in the delay: it goes on to
\* the loop head, where it polls again unless the connection is
\* deregistered.
C9_FailureNeverEndsLoop ==
    /\ [][\A k \in Calls :
            (pc[k] \in {"poll", "backoff"} /\ pc'[k] \notin {"poll", "backoff"})
            => (~Registered(k) \/ StartsSession(k))]_vars
    /\ \A k \in Calls : []<>(pc[k] # "backoff")

C9_Witness ==
    \E k \in Calls :
       pc[k] = "poll" /\ last.k = k /\ last.polled /\ last.delayed /\ ~handedOff[k]

\* C10: once stopListener has run and no startListener is called afterwards,
\* no loop issues debuggerListen and no debug session is started.
C10_NothingAfterStop ==
    [][quiet => \A k \in Calls : ~IssuesPoll(k) /\ ~StartsSession(k)]_vars

\* every table of thread t, the current and the replaced ones, issued fewer
\* handles than the multiplier
WithinSequenceSpace(t) ==
    /\ Cardinality(Live(t)) < STACK_THREAD_MULTIPLIER
    /\ Cardinality(retired[t]) < STACK_THREAD_MULTIPLIER

\* C5: for distinct threads whose tables stayed within the sequence space,
\* every handle issued decodes to its thread and no live handle is shared.
C5_HandlesDecodeToThread ==
    \A t1 \in Threads, t2 \in Threads :
       (t1 # t2 /\ WithinSequenceSpace(t1) /\ WithinSequenceSpace(t2))
       => /\ \A h \in Live(t1) \cup retired[t1] : idThread(h) = t1
          /\ \A h \in Live(t2) \cup retired[t2] : idThread(h) = t2
          /\ Live(t1) \cap Live(t2) = {}

C5_Witness ==
    /\ \A t \in Threads : WithinSequenceSpace(t) /\ Cardinality(Live(t)) >= 2
    /\ \E t \in Threads : retired[t] # {}

\* C6: a lookup of a handle that was issued before the thread's last reset
\* yields not-found.
C6_RetiredHandleNotFound ==
    lookup.stale => lookup.res = NotFound

\* sync call s issues a setBreakpoints call in this step
IssuesPush(s) ==
    /\ sync'[s].pc = "push"
    /\ sync[s].pc = "push" => sync'[s].file # sync[s].file \/ sync'[s].conn # sync[s].conn

\* sync call s takes its snapshot of debug.breakpoints in this step
TakesSnapshot(s) ==
    /\ sync'[s].pc = "push"
    /\ sync[s].pc = "idle" \/ sync'[s].conn # sync[s].conn

\* sync call s ends in this step
SyncEnds(s) == sync[s].pc = "push" /\ syncEnd'.s = s /\ syncEnd'.how # "none"

\* a registered connection has a file with declared breakpoints
SomethingToPush(L, decl) ==
    \E f \in Files : ListenersHas(L, FileConn(f)) /\ decl[f] # <<>>

\* C11 (trigger): a change of the declared breakpoints while a listener is
\* registered, and the registration of a listener, start a sync call if there
\* is something to push.
C11_Triggered ==
    [][/\ (declared' # declared /\ SomethingToPush(listeners, declared'))
              => \E s \in Syncs : sync[s].pc = "idle" /\ IssuesPush(s)
                                  /\ sync'[s].origin = "change"
       /\ \A c \in Conns :
            (~ListenersHas(listeners, c) /\ ListenersHas(listeners', c)
               /\ \E f \in Files : FileConn(f) = c /\ declared[f] # <<>>)
              => \E s \in Syncs : sync[s].pc = "idle" /\ IssuesPush(s)
                                  /\ sync'[s].conn = c]_vars

\* C11 (replace): every setBreakpoints call carries the full list of the file
\* as declared when the call's snapshot was taken, every line converted to
\* the remote's 1-based numbering, for a file of the connection synced.
C11_FullList ==
    [][\A s \in Syncs :
         /\ IssuesPush(s) =>
              /\ FileConn(sync'[s].file) = sync'[s].conn
              /\ Len(sync'[s].arg) = Len(sync'[s].snap[sync'[s].file])
              /\ \A i \in 1..Len(sync'[s].arg) :
                    sync'[s].arg[i] = sync'[s].snap[sync'[s].file][i] + 1
         /\ TakesSnapshot(s) =>
              \A f \in Files :
                 sync'[s].snap[f] = IF FileConn(f) = sync'[s].conn
                                    THEN declared'[f] ELSE <<>>]_vars

\* C11 (coverage): a sync call ends only when every file of its snapshot was
\* pushed and, for a call made by the change handler, every registered
\* connection that has declared breakpoints was visited.
C11_Covered ==
    [][\A s \in Syncs : SyncEnds(s) =>
         /\ Pending(sync[s].snap, sync[s].file) = {}
         /\ sync[s].origin = "change" =>
               \A c \in Rest(sync[s].visited, listeners) :
                  Pending(ByFile(c, declared), 0) = {}]_vars

\* C11: on listener start and on every change of the declared breakpoints
\* while a listener is registered, every file with declared breakpoints of
\* every registered connection has its full list pushed as a replace.
C11_SyncPushesEveryFile == C11_Triggered /\ C11_FullList /\ C11_Covered

\* C12: the chunk requests outstanding at a time never exceed the concurrency
\* passed to pMap, and a chunk request is started only in a step in which an
\* earlier one completed or while fewer than that many are outstanding.
C12_OutstandingCapped ==
    /\ [](Cardinality(Outstanding(ft)) <= Concurrency)
    /\ [][Outstanding(ft') \ Outstanding(ft) # {} =>
            \/ Outstanding(ft) \ Outstanding(ft') # {}
            \/ Cardinality(Outstanding(ft)) < Concurrency]_vars

\* the cap is reached while an item waits, and a request was started after
\* an earlier one completed
C12_Witness ==
    /\ Cardinality(Outstanding(ft)) = Concurrency
    /\ ft.index > Concurrency
    /\ ft.out = "pending"

\* the call went through the structured branch and returned
StructuredReturned == ft.out = "returned" /\ ft.fields # <<>>

\* what the remote holds for field f of the n-th row of the range
RemoteCell(n, f) ==
    LET key == FieldId(RowKey(inp.start + n - 1), f)
    IN IF Present(key, inp) THEN ValueOf(key) ELSE EmptyString

\* C13: whatever the order in which the chunk requests complete, every cell
\* of the result of the structured branch holds the value the remote returned
\* for the key of that row and field.
C13_ResultIndependentOfOrder ==
    StructuredReturned =>
        \A n \in 1..Len(ft.rows) : \A f \in DOMAIN ft.rows[n] :
            ft.rows[n][f] = RemoteCell(n, f)

\* a result built after a chunk request overtook an earlier one
C13_Witness ==
    /\ StructuredReturned
    /\ ft.reordered
    /\ Len(ft.rows) >= 2
    /\ inp.absent = {}

\* the result of the structured branch as a function of the table and the
\* range alone
ExpectedRows(i) ==
    [n \in 1..(SliceEnd(i) - i.start) |-> [f \in 1..i.nf |-> RemoteCell(n, f)]]

\* C14: for every chunk size the structured branch returns the same rows:
\* end - start row objects in row order, each with exactly the field names
\* discovered from the first row.
C14_SameForEveryChunkSize ==
    StructuredReturned =>
        /\ Len(ft.rows) = SliceEnd(inp) - inp.start
        /\ \A n \in 1..Len(ft.rows) :
              DOMAIN ft.rows[n] = {ft.fields[k].name : k \in 1..Len(ft.fields)}
        /\ ft.rows = ExpectedRows(inp)

\* a result assembled from several chunks that are not single keys
C14_Witness ==
    /\ StructuredReturned
    /\ inp.chunk = 2
    /\ Len(ft.chunks) >= 2
    /\ inp.nf = 2

\* C15: when the remote has a value for every key, the call returns
\* max(0, min(start + count, lineCount) - start) rows, and none without any
\* remote call if the range is empty.
C15_ClampedRowCount ==
    (ft.out = "returned" /\ inp.absent = {}) =>
        /\ Len(ft.rows) = IF SliceEnd(inp) > inp.start
                          THEN SliceEnd(inp) - inp.start ELSE 0
        /\ inp.start >= SliceEnd(inp) => ft.calls = 0

\* a range that reaches beyond the table is cut at the last row
C15_Witness ==
    /\ ft.out = "returned"
    /\ inp.absent = {}
    /\ inp.start + inp.count > inp.lines
    /\ inp.start > 0
    /\ Len(ft.rows) = inp.lines - inp.start
    /\ Len(ft.rows) >= 2

\* C17: a remote failure during fetchTableSlice (also of a single chunk
\* request) is caught inside the operation and never reaches the caller.
C17_FailureDegradesToEmpty == ft.out # "raised"

\* C16: getVariables with a handle that is absent from the current table of
\* its thread returns an empty list without reaching childVariables, hence
\* without a remote call.
C16_AbsentHandleGivesEmpty ==
    \A t \in Threads :
        (lookup.returned # "none" /\ idThread(lookup.h) = t
           /\ lookup.h \notin Live(t) /\ lookup.res = NotFound)
        => lookup.returned = "empty"

\* a lookup of a handle issued before the last reset and not issued again,
\* in a thread whose table has handles
C16_Witness ==
    /\ lookup.returned = "empty"
    /\ lookup.stale
    /\ lookup.res = NotFound
    /\ Live(idThread(lookup.h)) # {}
    /\ lookup.h \notin Live(idThread(lookup.h))

\* the setVariable call op' begins in this step
SetVariableBegins == op' # op /\ op'.name = "setVariable" /\ op.pc # "await"

\* C18: setVariable never raises and returns {value: "", success: false} when
\* the remote call fails, when the thread has no client and when the handle
\* is not in the thread's current table; in the last two cases it issues no
\* remote call.
C18_SetVariableNeverRaises ==
    /\ []((op.name = "setVariable" /\ op.pc = "done") =>
            /\ op.out \in {"success", "failed"}
            /\ op.rejected => op.out = "failed"
            /\ op.out = "failed" => op.result = <<>>)
    /\ [][(/\ SetVariableBegins
           /\ \/ ~op'.client
              \/ HandlesGet(variableHandles(handles, op'.thread), op'.ref) = NotFound)
          => (op'.pc = "done" /\ op'.out = "failed" /\ op'.result = <<>>
              /\ op'.calls = 0)]_vars

\* a setVariable for a thread with a client and with handles, on a handle
\* that is not among them
C18_Witness ==
    /\ op.name = "setVariable" /\ op.pc = "done" /\ op.out = "failed"
    /\ op.client /\ op.calls = 0
    /\ Live(op.thread) # {} /\ op.ref \notin Live(op.thread)

\* C19: evaluate without a frame id, with a frame id of no thread or of a
\* thread without a client signals an evaluation error to its caller.
C19_EvaluateSignalsError ==
    (op.name = "evaluate" /\ op.pc = "done" /\ (op.thread = 0 \/ ~op.client))
        => op.out \in {"error", "raised"}

\* the expression is json(<inner>) with a non-empty inner expression
FormJson(e) == Len(e) >= 3 /\ e[1] = "json(" /\ e[Len(e)] = ")"
InnerOf(e) == SubSeq(e, 2, Len(e) - 1)

\* C20: evaluate of json(<inner>), on a frame of a thread with a client and
\* with the remote answering, returns the JSON serialization of
\* dumpJson(<inner>) with handle 0 and allocates no handle.
C20_JsonEvaluatesToDump ==
    /\ []((/\ op.name = "evaluate" /\ op.pc = "done" /\ FormJson(op.expr)
           /\ op.thread # 0 /\ op.client /\ ~op.rejected)
          => /\ op.out = "value"
             /\ op.result = Stringify(DumpJson(InnerOf(op.expr)))
             /\ op.handle = 0)
    /\ [][(op' # op /\ op'.name = "evaluate" /\ FormJson(op'.expr))
            => handles' = handles]_vars

\* json(X) evaluated on a thread that has handles
C20_Witness ==
    /\ op.name = "evaluate" /\ op.pc = "done" /\ op.out = "value"
    /\ op.expr = <<"json(", "X", ")">>
    /\ op.result = <<"\"", "A", "\"">>
    /\ op.thread \in Threads /\ Live(op.thread) # {}

\* C25: whenever a connection is in the listener registry, the startListener
\* call that registered it is still ahead of its loop start (awaiting the
\* initial sync) or its listener loop is running.
C25_RegisteredHasLoop ==
    \A c \in Conns :
        ListenersHas(listeners, c)
        => pc[listeners[c]] \in {"sync", "poll", "backoff"}

\* no sync call is running
SyncsIdle == \A s \in Syncs : sync[s].pc = "idle"

\* C26: when no sync call runs, no setBreakpoints call was rejected and the
\* breakpoints never changed while a sync call ran, the remote's lines of
\* every file of a listening connection are the declared lines of the file
\* (1-based), also for a file whose declared list is empty.
C26_RemoteEqualsDeclared ==
    (SyncsIdle /\ ~syncLog.rejected /\ ~syncLog.concurrent)
    => \A f \in Files :
          ListenersHas(listeners, FileConn(f)) => remote[f] = DebugBps(declared[f])

\* C27: when no sync call runs and no setBreakpoints call was rejected, then
\* also after overlapping sync calls the remote's lines of every file with
\* declared breakpoints of a listening connection are the lines last
\* declared.
C27_OverlapLeavesLatest ==
    (SyncsIdle /\ ~syncLog.rejected)
    => \A f \in Files :
          (ListenersHas(listeners, FileConn(f)) /\ declared[f] # <<>>)
          => remote[f] = DebugBps(declared[f])

\* pMap was called in the structured branch
PMapCalled == ft.pc \in {"chunks", "done"} /\ ft.work # <<>>

\* the key list of the structured branch: rows of the range by fields, row-major
KeyList(i) ==
    [n \in 1..((SliceEnd(i) - i.start) * i.nf) |->
        FieldId(RowKey(i.start + ((n - 1) \div i.nf)), ((n - 1) % i.nf) + 1)]

\* C24: the chunks are consecutive slices of the key list (every key is in
\* exactly one chunk), every chunk has at most chunkSize keys and all but the
\* last exactly chunkSize, there are ceil(keys / chunkSize) chunks, and a
\* call that returns has requested every chunk.
C24_ChunkPartition ==
    PMapCalled =>
        /\ Flat(ft.chunks) = KeyList(inp)
        /\ \A j \in 1..Len(ft.chunks) :
              /\ Len(ft.chunks[j]) <= inp.chunk
              /\ Len(ft.chunks[j]) >= 1
              /\ j < Len(ft.chunks) => Len(ft.chunks[j]) = inp.chunk
        /\ Len(ft.chunks) * inp.chunk >= Len(KeyList(inp))
        /\ (Len(ft.chunks) - 1) * inp.chunk < Len(KeyList(inp)) \/ Len(ft.chunks) = 0
        /\ ft.out = "returned" => ft.index = Len(ft.chunks)

\* a returned call whose key list ends in a chunk that is not full
C24_Witness ==
    /\ PMapCalled /\ ft.out = "returned"
    /\ inp.chunk = 2
    /\ Len(ft.chunks) = 2
    /\ Len(ft.chunks[2]) = 1

\* C30: while no mapper call fails, no item is with two workers and every
\* item a worker takes is one no worker took before (the mapper is invoked
\* once per item); the result of every resolved call is at the index of its
\* item; pMap completes in the step in which the last call resolves, with
\* every item taken; for an empty array it completes without a call.
C30_OncePerItemByIndex ==
    /\ []((PMapCalled /\ ft.out # "raised") =>
            /\ \A w1 \in Workers, w2 \in Workers :
                  (w1 # w2 /\ ft.work[w1] # 0) => ft.work[w1] # ft.work[w2]
            /\ Outstanding(ft) \subseteq 1..ft.index
            /\ ft.index <= Len(ft.chunks)
            /\ \A j \in (1..ft.index) \ Outstanding(ft) :
                  ft.results[j] = DebuggerVariables(ft.chunks[j], inp)
            /\ ft.pc = "chunks" <=> Outstanding(ft) # {}
            /\ ft.pc = "done" => ft.index = Len(ft.chunks)
            /\ Len(ft.chunks) = 0 => ft.calls = 2)
    /\ [][(ft'.pc = "chunks" /\ ft'.out # "raised") =>
            /\ Outstanding(ft') \ Outstanding(ft)
                 = (IF ft.pc = "chunks" THEN ft.index + 1 ELSE 1)..ft'.index
            /\ ft'.calls = (IF ft.pc = "chunks" THEN ft.calls ELSE 2)
                             + Cardinality(Outstanding(ft') \ Outstanding(ft))]_vars

\* pMap completed after more items than workers, with a call overtaking an
\* earlier one
C30_Witness ==
    /\ PMapCalled /\ ft.pc = "done" /\ ft.out = "returned"
    /\ Len(ft.chunks) > Concurrency
    /\ ft.reordered

\* pMap completed for an empty array
C30_WitnessEmpty ==
    /\ ft.pc = "done" /\ ft.out = "returned"
    /\ inp.kind = "structure" /\ inp.nf = 0
    /\ Len(ft.rows) >= 1 /\ ft.calls = 2

\* the reference materialization of a remote value, as a sequence of tokens:
\* an object with one entry per component, an array with one element per
\* row, the string Unprocessable:<metaType>, or the scalar
RECURSIVE Reference(_)
RECURSIVE ReferenceEach(_, _, _)
ReferenceEach(kids, n, named) ==
    IF n > Len(kids) THEN <<>>
    ELSE (IF named THEN <<CompName(n), ":">> ELSE <<>>)
         \o Reference(kids[n]) \o <<",">> \o ReferenceEach(kids, n + 1, named)

Reference(node) ==
    CASE node.meta = "structure" -> <<"{">> \o ReferenceEach(node.kids, 1, TRUE) \o <<"}">>
      [] node.meta = "table" -> <<"[">> \o ReferenceEach(node.kids, 1, FALSE) \o <<"]">>
      [] node.meta = "simple" /\ node.tech = <<"I">> -> <<"number">> \o TrimEnd(node.value)
      [] node.meta \in {"simple", "string"} -> <<"string">> \o TrimEnd(node.value)
      [] OTHER -> <<"string", "Unprocessable:", node.meta>>

\* the structures and tables of a remote value
RECURSIVE ContainerCount(_)
RECURSIVE ContainerCountEach(_, _)
ContainerCountEach(kids, n) ==
    IF n > Len(kids) THEN 0
    ELSE ContainerCount(kids[n]) + ContainerCountEach(kids, n + 1)

ContainerCount(node) ==
    IF node.meta \in ContainerMetas THEN 1 + ContainerCountEach(node.kids, 1) ELSE 0

\* C21: dumpJson of a remote value tree ends after one remote call for the
\* name and one per structure and table of the tree, and what it returns is
\* the reference materialization of the tree: an object keyed by component
\* name for a structure, an array of all rows in row order for a table, the
\* string Unprocessable:<metaType> for every other non-scalar meta type.
C21_DumpEqualsReference ==
    /\ dj.pc = "await" => dj.resolved <= ContainerCount(dj.tree)
    /\ (dj.pc = "done" /\ dj.out = "returned" /\ dj.known) =>
          /\ dj.json = Reference(dj.tree)
          /\ dj.resolved = 1 + ContainerCount(dj.tree)

\* the table of structures was dumped
C21_Witness ==
    /\ dj.pc = "done" /\ dj.out = "returned" /\ dj.known
    /\ dj.tree = Fixture
    /\ dj.resolved = 2 + MaxLines

\* the getScopes call that begins in this step and suspends, in slot k
ScopesBegin(k) ==
    gs'.n = gs.n + 1 /\ Awaiting(gs'.call[k]) /\ ~Awaiting(gs.call[k])

\* C22: a getScopes call for a frame of the stack trace, made while no
\* request of the frame's thread is outstanding, issues the reposition call
\* if and only if the frame is not the one the remote cursor of the thread
\* is on.
C22_RepositionIffFrameDiffers ==
    [][\A k \in ScopeCalls :
         (/\ ScopesBegin(k)
          /\ InStackTrace(gs'.call[k].frame)
          /\ gs.queue[gs'.call[k].thread] = <<>>)
         => (gs'.call[k].moved
               <=> gs'.call[k].frame # gs.cursor[gs'.call[k].thread])]_vars

\* a getScopes call returned in the last step
ScopesReturned == gs.ended.pc = "done" /\ gs.ended.out = "returned"

\* the scopes are those of the hierarchies reported, in order, followed by
\* SY, and their handles resolve to descriptors with the remote ids
ScopesAsReported(e) ==
    /\ Len(e.scopes) = Len(e.hier) + 1
    /\ \A n \in 1..Len(e.hier) :
          /\ e.scopes[n].name = ScopeName(e.hier[n])
          /\ HandlesGet(handles[e.thread], e.scopes[n].handle).id = e.hier[n].CHILD_ID
    /\ e.scopes[Len(e.scopes)].name = "SY"
    /\ HandlesGet(handles[e.thread], e.scopes[Len(e.scopes)].handle).id = "SY"
    /\ \A n \in 1..Len(e.hier) : e.scopes[n].name # "SY"
    /\ \A n \in 1..Len(e.scopes), m \in 1..Len(e.scopes) :
          n # m => e.scopes[n].handle # e.scopes[m].handle

\* C23 (as stated): every getScopes result, also the one of a thread without
\* a client, has the scopes of the hierarchies followed by SY.
C23_EveryResultHasSy ==
    (gs.ended.pc = "done" /\ gs.ended.out \in {"returned", "empty"})
    => ScopesAsReported(gs.ended)

\* C23 (amended): every result getScopes builds from a report of the remote
\* has one scope per hierarchy entry, in order, followed by exactly one scope
\* SY; every handle is created in the step that returns (it was not in the
\* thread's table before) and resolves to the descriptor with the remote id
\* of its entry, SY for the last.
C23_ReportedScopesThenSy ==
    /\ [](ScopesReturned => ScopesAsReported(gs.ended))
    /\ [][(gs'.ended.pc = "done" /\ gs'.ended.out = "returned") =>
            \A n \in 1..Len(gs'.ended.scopes) :
               /\ gs'.ended.scopes[n].handle \notin Live(gs'.ended.thread)
               /\ gs'.ended.scopes[n].handle \in DOMAIN handles'[gs'.ended.thread].map]_vars

\* a result with two hierarchy scopes and SY, in a table that had handles
C23_Witness ==
    /\ ScopesReturned
    /\ Len(gs.ended.hier) = 2
    /\ Len(gs.ended.scopes) = 3
    /\ gs.ended.scopes[1].handle > StartHandle(gs.ended.thread)

\* C28: a getScopes call during whose await the handle table of its thread
\* was reset allocates no handle when it goes on.
C28_NoHandleAfterReset ==
    [][(gs'.ended.pc = "done" /\ gs'.ended.stale) => handles' = handles]_vars

\* C29: the root-variable read of a getScopes call for a frame of the stack
\* trace is served while the remote cursor of the thread is on that frame.
C29_ReadServedOnOwnFrame ==
    (ScopesReturned /\ InStackTrace(gs.ended.frame))
    => gs.ended.served = gs.ended.frame

====
